---------------------------- MODULE Spec2Model ----------------------------
(***************************************************************************)
(* A model of readpdf.py: the value cleanup (clean_value), the field       *)
(* matcher (find_field_value, with the regular expressions of its pattern  *)
(* table evaluated the way Python's backtracking matcher evaluates them),  *)
(* the batch aggregator (process_pdfs with extract_text_from_pdf) and the  *)
(* serialization of the records (save_results_to_csv, called from main).   *)
(*                                                                         *)
(* A Python str is a sequence of one-character strings, so that replace,   *)
(* strip, split and the regular expressions are computed character by      *)
(* character.                                                              *)
(***************************************************************************)
EXTENDS Integers, Sequences, FiniteSets

VARIABLES
    \* clean_value applied once and twice to one value
    value, once, twice, cpc,
    \* one call of find_field_value
    text, field_name, result, shape, mpc,
    \* main: process_pdfs followed by save_results_to_csv
    source_exists, listing, fields, pdf_files, idx, results, log, csv_rows, pc

cleanVars == <<value, once, twice, cpc>>
matchVars == <<text, field_name, result, shape, mpc>>
batchVars == <<source_exists, listing, fields, pdf_files, idx, results, log,
               csv_rows, pc>>
vars == <<cleanVars, matchVars, batchVars>>

---------------------------------------------------------------------------
(* The string literals of the program.                                     *)

RS == <<"R", "$">>
BaseColon == <<"B", "a", "s", "e", ":">>
ValorLabel == <<"V", "a", "l", "o", "r", " ", "B", "a", "s", "e", " ", "p", "a", "r", "a", " ", "F", "i", "n", "s", " ", ":">>
ValorBaseRescisorios == <<"V", "a", "l", "o", "r", " ", "B", "a", "s", "e", " ", "p", "a", "r", "a", " ", "F", "i", "n", "s", " ", "R", "e", "s", "c", "i", "s", "o", "r", "i", "o", "s">>
ValorBaseParaFins == <<"V", "a", "l", "o", "r", " ", "B", "a", "s", "e", " ", "p", "a", "r", "a", " ", "F", "i", "n", "s">>
Nome == <<"N", "o", "m", "e">>
PisPasepNit == <<"P", "I", "S", "/", "P", "A", "S", "E", "P", "/", "N", "I", "T">>
Pis == <<"P", "I", "S">>
Archivo == <<"A", "r", "c", "h", "i", "v", "o">>
NoEncontrado == <<"N", "o", " ", "e", "n", "c", "o", "n", "t", "r", "a", "d", "o">>
DotPdf == <<".", "p", "d", "f">>

---------------------------------------------------------------------------
(* Python's str operations.                                                *)

UpperCase == <<"A", "B", "C", "D", "E", "F", "G", "H", "I", "J", "K", "L", "M",
               "N", "O", "P", "Q", "R", "S", "T", "U", "V", "W", "X", "Y", "Z">>
LowerCase == <<"a", "b", "c", "d", "e", "f", "g", "h", "i", "j", "k", "l", "m",
               "n", "o", "p", "q", "r", "s", "t", "u", "v", "w", "x", "y", "z">>

\* The lower-case form of one character (str.lower, and re.IGNORECASE).
LowerOf ==
    [u \in {UpperCase[k] : k \in DOMAIN UpperCase} |->
        LowerCase[CHOOSE k \in DOMAIN UpperCase : UpperCase[k] = u]]

Lower(c) == IF c \in DOMAIN LowerOf THEN LowerOf[c] ELSE c

LowerStr(s) == [k \in 1..Len(s) |-> Lower(s[k])]

\* Whitespace: what str.strip() removes and what \s matches.
IsSpace(c) == c \in {" ", "\n", "\t", "\r"}

SetMin(S) == CHOOSE x \in S : \A y \in S : x <= y
SetMax(S) == CHOOSE x \in S : \A y \in S : y <= x

\* sub occurs in s at position p (case-sensitive).
StartsAt(s, p, sub) ==
    /\ p >= 1
    /\ p + Len(sub) - 1 <= Len(s)
    /\ \A k \in 1..Len(sub) : s[p + k - 1] = sub[k]

\* s.endswith(suffix)
EndsWith(s, suffix) == StartsAt(s, Len(s) - Len(suffix) + 1, suffix)

\* The position of the first occurrence of sub in s, 0 when there is none.
RECURSIVE FindFrom(_, _, _)
FindFrom(s, sub, p) ==
    IF p + Len(sub) - 1 > Len(s) THEN 0
    ELSE IF StartsAt(s, p, sub) THEN p
    ELSE FindFrom(s, sub, p + 1)

Find(s, sub) == FindFrom(s, sub, 1)

\* sub in s
Contains(s, sub) == Find(s, sub) # 0

\* s.strip()
Strip(s) ==
    LET keep == {k \in 1..Len(s) : ~IsSpace(s[k])}
    IN  IF keep = {} THEN <<>> ELSE SubSeq(s, SetMin(keep), SetMax(keep))

\* s.replace(old, ''): the occurrences of old are removed in one pass from
\* the left; the characters that a removal brings together are not looked
\* at again.
RECURSIVE Remove(_, _)
Remove(s, old) ==
    LET p == Find(s, old)
    IN  IF p = 0 THEN s
        ELSE SubSeq(s, 1, p - 1) \o Remove(SubSeq(s, p + Len(old), Len(s)), old)

\* s.split(sep)[0]
SplitFirst(s, sep) ==
    IF Contains(s, sep) THEN SubSeq(s, 1, Find(s, sep) - 1) ELSE s

---------------------------------------------------------------------------
(* clean_value                                                             *)

\* clean_value without the truncation at "Base:".
clean_value_keeps_terminator(v) ==
    IF v = <<>> THEN v ELSE Strip(Remove(v, RS))

clean_value(v) ==
    IF v = <<>> THEN v
    ELSE LET stripped == Strip(Remove(v, RS))
         IN  IF Contains(stripped, BaseColon)
             THEN Strip(SplitFirst(stripped, BaseColon))
             ELSE stripped

---------------------------------------------------------------------------
(* The regular expressions of find_field_value.  re.search tries the start *)
(* positions from the left and, at each, the alternatives of the pattern   *)
(* in the matcher's backtracking order: a greedy quantifier takes the most *)
(* it can and gives back one character at a time, a lazy one takes the     *)
(* least and grows, an alternation tries its branches from the left.  The  *)
(* first alternative that matches decides the groups.                      *)

Digits == {"0", "1", "2", "3", "4", "5", "6", "7", "8", "9"}

\* One character against a character class of the patterns.
InClass(cls, c) ==
    CASE cls = "colon_space" -> c = ":" \/ IsSpace(c)            \* [:\s]
      [] cls = "space"       -> IsSpace(c)                         \* \s
      [] cls = "not_newline" -> c # "\n"                           \* [^\n] and .
      [] cls = "amount"      -> c \in Digits \cup {".", ","}       \* [\d\.,]
      [] cls = "pis_value"   -> c \in Digits \cup {".", "-", "/"}  \* [\d\.\-/]

\* The length of the longest run of characters of the class from position p.
RECURSIVE RunLen(_, _, _)
RunLen(s, p, cls) ==
    IF p > Len(s) \/ ~InClass(cls, s[p]) THEN 0 ELSE 1 + RunLen(s, p + 1, cls)

\* A literal of a pattern at position p, under re.IGNORECASE.
MatchLit(s, p, lit) ==
    /\ p + Len(lit) - 1 <= Len(s)
    /\ \A k \in 1..Len(lit) : Lower(s[p + k - 1]) = Lower(lit[k])

\* A field name interpolated into the fallback pattern is read as a regular
\* expression, not as literal text.  Of the metacharacters, the names of this
\* model hold "." (any character but a newline) and "(" (which opens a group
\* that no name of the model closes, so that re.compile raises re.error).
CompileError(name) == \E k \in 1..Len(name) : name[k] = "("

MatchName(s, p, name) ==
    /\ p + Len(name) - 1 <= Len(s)
    /\ \A k \in 1..Len(name) :
          IF name[k] = "." THEN InClass("not_newline", s[p + k - 1])
          ELSE Lower(s[p + k - 1]) = Lower(name[k])

NoMatch == [ok |-> FALSE, groups |-> <<>>]

\* name[:\s]*([^\n]+) at position p: [:\s]* gives characters back until a
\* character other than a newline follows it, and the group runs to the end
\* of that line.
LineAt(s, p, name) ==
    IF ~MatchName(s, p, name) THEN NoMatch
    ELSE LET e  == p + Len(name)
             js == {j \in 0..RunLen(s, e, "colon_space") :
                       RunLen(s, e + j, "not_newline") >= 1}
         IN  IF js = {} THEN NoMatch
             ELSE LET g == e + SetMax(js)
                  IN  [ok |-> TRUE,
                       groups |-> <<SubSeq(s, g, g + RunLen(s, g, "not_newline") - 1)>>]

\* One branch of (PIS/PASEP/NIT|PIS), then [:\s]*([\d\.\-/]+).
PisBranchAt(s, p, label) ==
    IF ~MatchLit(s, p, label) THEN NoMatch
    ELSE LET e  == p + Len(label)
             js == {j \in 0..RunLen(s, e, "colon_space") :
                       RunLen(s, e + j, "pis_value") >= 1}
         IN  IF js = {} THEN NoMatch
             ELSE LET g == e + SetMax(js)
                  IN  [ok |-> TRUE,
                       groups |-> <<SubSeq(s, p, e - 1),
                                    SubSeq(s, g, g + RunLen(s, g, "pis_value") - 1)>>]

\* (PIS/PASEP/NIT|PIS)[:\s]*([\d\.\-/]+) at position p
PisAt(s, p) ==
    LET long == PisBranchAt(s, p, PisPasepNit)
    IN  IF long.ok THEN long ELSE PisBranchAt(s, p, Pis)

\* "$" without re.MULTILINE: the end of the text, or the place before a
\* newline that ends the text.
AtEnd(s, q) == q = Len(s) + 1 \/ (q = Len(s) /\ s[q] = "\n")

\* (?:\s*Base:|$) at position q
TerminatorAt(s, q) ==
    \/ \E f \in 0..RunLen(s, q, "space") : MatchLit(s, q + f, BaseColon)
    \/ AtEnd(s, q)

\* .*? from position q: it takes no character, then one more non-newline
\* character at a time, until the terminator follows.  The position where
\* the group ends (0: the terminator is never reached).
RECURSIVE LazyEnd(_, _)
LazyEnd(s, q) ==
    IF TerminatorAt(s, q) THEN q
    ELSE IF q <= Len(s) /\ InClass("not_newline", s[q]) THEN LazyEnd(s, q + 1)
    ELSE 0

\* The greedy \s* before .*?: d characters from position q, then one fewer.
RECURSIVE SpaceBack(_, _, _)
SpaceBack(s, q, d) ==
    IF LazyEnd(s, q + d) # 0 THEN LazyEnd(s, q + d)
    ELSE IF d = 0 THEN 0
    ELSE SpaceBack(s, q, d - 1)

\* The greedy [\d\.,]+: c characters from position n, then one fewer, never
\* fewer than one.
RECURSIVE AmountBack(_, _, _)
AmountBack(s, n, c) ==
    IF c = 0 THEN 0
    ELSE LET q == SpaceBack(s, n + c, RunLen(s, n + c, "space"))
         IN  IF q # 0 THEN q ELSE AmountBack(s, n, c - 1)

\* Valor Base para Fins :\s*(R\$\s*[\d\.,]+\s*.*?)(?:\s*Base:|$) at position p
CurrencyAt(s, p) ==
    IF ~MatchLit(s, p, ValorLabel) THEN NoMatch
    ELSE LET a == p + Len(ValorLabel)
             gs == {j \in 0..RunLen(s, a, "space") : MatchLit(s, a + j, RS)}
         IN  IF gs = {} THEN NoMatch
             ELSE LET g  == a + SetMax(gs)
                      r  == g + Len(RS)
                      ns == {j \in 0..RunLen(s, r, "space") :
                                RunLen(s, r + j, "amount") >= 1}
                  IN  IF ns = {} THEN NoMatch
                      ELSE LET n == r + SetMax(ns)
                               q == AmountBack(s, n, RunLen(s, n, "amount"))
                           IN  IF q = 0 THEN NoMatch
                               ELSE [ok |-> TRUE, groups |-> <<SubSeq(s, g, q - 1)>>]

\* The pattern table and the fallback pattern (patterns.get).
Pattern(name) ==
    IF name = ValorBaseRescisorios THEN [kind |-> "currency", name |-> <<>>]
    ELSE IF name = PisPasepNit THEN [kind |-> "pis", name |-> <<>>]
    ELSE [kind |-> "line", name |-> name]

MatchAt(pattern, s, p) ==
    CASE pattern.kind = "currency" -> CurrencyAt(s, p)
      [] pattern.kind = "pis"      -> PisAt(s, p)
      [] pattern.kind = "line"     -> LineAt(s, p, pattern.name)

\* re.search(pattern, text, re.IGNORECASE): the match at the leftmost
\* position that has one.
RECURSIVE SearchFrom(_, _, _)
SearchFrom(pattern, s, p) ==
    IF p > Len(s) THEN NoMatch
    ELSE LET m == MatchAt(pattern, s, p)
         IN  IF m.ok THEN m ELSE SearchFrom(pattern, s, p + 1)

re_search(pattern, s) == SearchFrom(pattern, s, 1)

\* What a call of find_field_value gives: a str, None, or an exception.
Str(v) == [kind |-> "str", val |-> v]
None == [kind |-> "None", val |-> <<>>]
Raised == [kind |-> "raise", val |-> <<>>]

\* The value of a match of the two-group pattern.
PisValueLabelGroup(match) == Strip(match.groups[1])

PisValue(match) == Strip(match.groups[2])

find_field_value(t, name) ==
    LET pattern == Pattern(name)
    IN  IF pattern.kind = "line" /\ CompileError(pattern.name) THEN Raised
        ELSE LET match == re_search(pattern, t)
             IN  IF ~match.ok THEN None
                 ELSE IF name = PisPasepNit /\ Len(match.groups) > 1
                      THEN Str(PisValue(match))
                      ELSE Str(clean_value(Strip(match.groups[1])))

---------------------------------------------------------------------------
(* extract_text_from_pdf, process_pdfs, save_results_to_csv                *)

\* A message of the logging collaborator at level INFO or above (the level
\* setup_logging sets; the debug message of process_pdfs is dropped by it)
\* and the file it is about (<<>>: none).
LogEntry(level, file) == [level |-> level, file |-> file]

\* The text of the pages, each followed by a newline.
RECURSIVE PagesText(_)
PagesText(pages) ==
    IF pages = <<>> THEN <<>>
    ELSE Head(pages) \o <<"\n">> \o PagesText(Tail(pages))

\* extract_text_from_pdf: the text it returns and what it logs.  A file that
\* cannot be opened or parsed raises inside the try block: the error is
\* logged and '' returned.
extract_text_from_pdf(file) ==
    IF file.readable
    THEN [text |-> PagesText(file.pages), log |-> <<>>]
    ELSE [text |-> <<>>, log |-> <<LogEntry("error", file.name)>>]

\* "not text" (line 113) made false for every text.
NotTextNever(t) == FALSE

\* not text
NotText(t) == t = <<>>

\* The truth value of what find_field_value returned ("value if value").
Truthy(v) == v.kind = "str" /\ v.val # <<>>

\* record[field] = ... dropped when the field was not found.
SetFieldSkipsMissing(record, field, v) ==
    IF ~Truthy(v) THEN record
    ELSE [k \in DOMAIN record \cup {field} |->
             IF k = field THEN v.val ELSE record[k]]

\* record[field] = value if value else 'No encontrado'
SetField(record, field, v) ==
    [k \in DOMAIN record \cup {field} |->
        IF k = field THEN (IF Truthy(v) THEN v.val ELSE NoEncontrado)
        ELSE record[k]]

\* The loop over the fields (lines 117-120): the record with every field
\* set, or the exception that find_field_value raised on the way.
RECURSIVE BuildRecord(_, _, _)
BuildRecord(record, t, fs) ==
    IF fs = <<>> THEN [raised |-> FALSE, record |-> record]
    ELSE LET v == find_field_value(t, Head(fs))
         IN  IF v.kind = "raise" THEN [raised |-> TRUE, record |-> record]
             ELSE BuildRecord(SetField(record, Head(fs), v), t, Tail(fs))

\* The entry of the source folder with the given name.
FileOf(name) == listing[CHOOSE k \in 1..Len(listing) : listing[k].name = name]

\* cleaned_record (line 150)
CleanedRecord(record) == [k \in DOMAIN record |-> clean_value(record[k])]

---------------------------------------------------------------------------
(* Bounds and inputs.                                                      *)

\* The longest value given to clean_value, in tokens.
MaxTokens == 4
\* The most entries of the source folder.
MaxDocs == 3
\* The longest text after the terminator of the currency field, in tokens.
MaxRest == 3

RECURSIVE Concats(_, _)
\* The concatenations of at most n of the tokens.
Concats(tokens, n) ==
    IF n = 0 THEN {<<>>}
    ELSE LET shorter == Concats(tokens, n - 1)
         IN  shorter \cup {s \o t : s \in shorter, t \in tokens}

CleanTokens ==
    {<<"R">>, <<"$">>, RS, BaseColon, <<"B", "a">>, <<"s", "e", ":">>,
     <<" ">>, <<"1">>}

\* Field names that are not keys of the pattern table.
CustomField == <<"C", "u", "s", "t", "o", "m", "F", "i", "e", "l", "d">>
DottedName == <<"A", ".", "B">>
UnclosedName == <<"V", "a", "l", "o", "r", " ", "(">>
UnknownNames == {CustomField, DottedName, UnclosedName, ValorBaseParaFins}

\* Texts before the label, none of which holds a label of a field.
Prefixes == {<<>>, <<"D", "a", "t", "a", ":", " ", "1", "\n">>, <<"x", " ">>}

Amounts == {<<"1", ".", "2", "3", "4", ",", "5", "6">>, <<"7">>, <<",", "5">>}
RestTokens == {RS, BaseColon, <<" ">>, <<"\n">>, <<"1", ".", "0", "0", "0", ",", "0", "0">>, <<"x", ":">>}
OtherLines == {<<"O", "t", "h", "e", "r", " ", "t", "e", "x", "t">>, <<"O", "t", "h", "e", "r", " ", "t", "e", "x", "t", "\n">>, <<"O", "t", "h", "e", "r", "\n", "M", "o", "r", "e">>}

PisLabels == {PisPasepNit, Pis, <<"p", "i", "s">>}
PisSeparators == {<<>>, <<":">>, <<":", " ">>, <<" ">>, <<" ", ":", "\n">>}
PisValues == {<<"1", "2", "3", ".", "4", "5", "6">>, <<"1", "2", "-", "3", "/", "4">>, <<"/", "7">>}
PisSuffixes == {<<>>, <<"\n">>, <<" ", "x", " ", "9">>}

FileNames == {<<"a", ".", "p", "d", "f">>, <<"b", ".", "P", "D", "F">>, <<"R", "$", ".", "p", "d", "f">>, <<"n", ".", "t", "x", "t">>}
FullPage == <<"N", "o", "m", "e", ":", " ", "A", "n", "a", "\n", "P", "I", "S", ":", " ", "1", "2", ".", "3", "\n", "V", "a", "l", "o", "r", " ", "B", "a", "s", "e", " ", "p", "a", "r", "a", " ", "F", "i", "n", "s", " ", ":", " ", "R", "$", " ", "1", ",", "5", " ", "B", "a", "s", "e", ":", " ", "R", "$", " ", "2">>
OddPage == <<"N", "o", "m", "e", ":", " ", "R", "$", "\n", "P", "I", "S", " ", "1", "\n", "V", "a", "l", "o", "r", " ", "B", "a", "s", "e", " ", "p", "a", "r", "a", " ", "F", "i", "n", "s", " ", ":", " ", "R", "R", "$", "$", " ", "3">>
Contents ==
    {[readable |-> FALSE, pages |-> <<>>],
     [readable |-> TRUE, pages |-> <<>>],
     [readable |-> TRUE, pages |-> <<FullPage>>],
     [readable |-> TRUE, pages |-> <<OddPage>>]}
\* fields_to_extract of the default configuration (line 29)
DefaultFields == <<Nome, PisPasepNit, ValorBaseParaFins>>
FieldLists ==
    {DefaultFields, <<ValorBaseRescisorios, Nome>>, <<Nome, UnclosedName>>}

\* The listings of a folder: at most n entries with distinct names.
RECURSIVE Listings(_)
Listings(n) ==
    IF n = 0 THEN {<<>>}
    ELSE LET shorter == Listings(n - 1)
             names(l) == {l[k].name : k \in 1..Len(l)}
         IN  shorter \cup
             UNION {{Append(l, [name |-> nm, readable |-> c.readable,
                                pages |-> c.pages]) :
                        nm \in FileNames \ names(l), c \in Contents} :
                    l \in {x \in shorter : Len(x) = n - 1}}

\* The inputs of one call of find_field_value: the text is pre, label and
\* body in this order, and the parts are kept to state what the call has to
\* return.
Shape(family, field, pre, label, sep, val, term, rest) ==
    [family |-> family, field |-> field, pre |-> pre, label |-> label,
     sep |-> sep, val |-> val, term |-> term, rest |-> rest]

TextOf(sh) == sh.pre \o sh.label \o sh.sep \o sh.val \o sh.term \o sh.rest

BaseTerm == <<" ", "B", "a", "s", "e", ":", " ">>
CurrencySep == <<" ", "R", "$", " ">>
CurrencyShapes ==
    {Shape("currency", f, pre, ValorLabel, CurrencySep, amount, t[1], t[2]) :
        f \in {ValorBaseParaFins, ValorBaseRescisorios}, pre \in Prefixes,
        amount \in Amounts,
        t \in ({BaseTerm} \X Concats(RestTokens, MaxRest))
              \cup ({<<>>} \X {<<>>, <<"\n">>})
              \cup ({<<"\n">>} \X OtherLines)}

PisShapes ==
    {Shape("pis", PisPasepNit, pre, label, sep, val, <<>>, rest) :
        pre \in Prefixes, label \in PisLabels, sep \in PisSeparators,
        val \in PisValues, rest \in PisSuffixes}

LineLabels == UnknownNames \cup {<<"A", "x", "B">>}
LineShapes ==
    {Shape("line", f, pre, label, <<":", " ">>, val, <<>>, rest) :
        f \in UnknownNames, pre \in Prefixes \cup {<<"A", "x", "B", ":", " ", "1", "\n">>},
        label \in LineLabels, val \in {<<"X", "Y", "Z">>, <<"R", "$", " ", "5", " ", "B", "a", "s", "e", ":", " ", "2">>},
        rest \in {<<>>, <<"\n", "m", "o", "r", "e">>}}

---------------------------------------------------------------------------
(* The state machines.                                                     *)

CleanIdle == value = <<>> /\ once = <<>> /\ twice = <<>> /\ cpc = "idle"
MatchIdle ==
    /\ text = <<>> /\ field_name = <<>> /\ result = None /\ mpc = "idle"
    /\ shape = Shape("none", <<>>, <<>>, <<>>, <<>>, <<>>, <<>>, <<>>)
BatchIdle ==
    /\ source_exists = FALSE /\ listing = <<>> /\ fields = <<>>
    /\ pdf_files = <<>> /\ idx = 0 /\ results = <<>> /\ log = <<>>
    /\ csv_rows = <<>> /\ pc = "idle"

(* clean_value applied to a value and to its own result.                   *)

InitClean ==
    /\ value \in Concats(CleanTokens, MaxTokens)
    /\ once = <<>> /\ twice = <<>> /\ cpc = "call"
    /\ MatchIdle /\ BatchIdle

CleanOnce ==
    /\ cpc = "call"
    /\ once' = clean_value(value)
    /\ cpc' = "once"
    /\ UNCHANGED <<value, twice, matchVars, batchVars>>

CleanTwice ==
    /\ cpc = "once"
    /\ twice' = clean_value(once)
    /\ cpc' = "twice"
    /\ UNCHANGED <<value, once, matchVars, batchVars>>

NextClean == CleanOnce \/ CleanTwice

SpecClean == InitClean /\ [][NextClean]_vars

(* One call of find_field_value.                                           *)

InitMatch ==
    /\ shape \in CurrencyShapes \cup PisShapes \cup LineShapes
    /\ text = TextOf(shape)
    /\ field_name = shape.field
    /\ result = None /\ mpc = "call"
    /\ CleanIdle /\ BatchIdle

FindFieldValue ==
    /\ mpc = "call"
    /\ result' = find_field_value(text, field_name)
    /\ mpc' = IF result'.kind = "raise" THEN "raised" ELSE "returned"
    /\ UNCHANGED <<text, field_name, shape, cleanVars, batchVars>>

NextMatch == FindFieldValue

SpecMatch == InitMatch /\ [][NextMatch]_vars

(* main: process_pdfs, then save_results_to_csv.                           *)

Init ==
    /\ source_exists \in BOOLEAN
    /\ listing \in Listings(MaxDocs)
    /\ ~source_exists => listing = <<>>
    /\ fields \in FieldLists
    /\ pdf_files = <<>> /\ idx = 0 /\ results = <<>> /\ log = <<>>
    /\ csv_rows = <<>> /\ pc = "start"
    /\ CleanIdle /\ MatchIdle

\* process_pdfs up to its loop (lines 95-106).
Start ==
    /\ pc = "start"
    /\ LET pdfs == SelectSeq([k \in 1..Len(listing) |-> listing[k].name],
                             LAMBDA f : EndsWith(LowerStr(f), DotPdf))
       IN  IF ~source_exists
           THEN /\ log' = Append(log, LogEntry("error", <<>>))
                /\ pdf_files' = pdf_files /\ idx' = idx
                /\ pc' = "returned"
           ELSE IF pdfs = <<>>
           THEN /\ log' = Append(log, LogEntry("warning", <<>>))
                /\ pdf_files' = pdfs /\ idx' = idx
                /\ pc' = "returned"
           ELSE /\ log' = log
                /\ pdf_files' = pdfs /\ idx' = 1
                /\ pc' = "loop"
    /\ UNCHANGED <<source_exists, listing, fields, results, csv_rows,
                   cleanVars, matchVars>>

\* One iteration of the loop over pdf_files (lines 108-122), and the return
\* that follows the last one.
ProcessFile ==
    /\ pc = "loop"
    /\ LET pdf_file == pdf_files[idx]
           extracted == extract_text_from_pdf(FileOf(pdf_file))
           built == BuildRecord([k \in {Archivo} |-> pdf_file],
                                extracted.text, fields)
           next == IF idx = Len(pdf_files) THEN "returned" ELSE "loop"
       IN  /\ log' = log \o <<LogEntry("info", pdf_file)>> \o extracted.log
           /\ IF NotText(extracted.text)
              THEN results' = results /\ idx' = idx + 1 /\ pc' = next
              ELSE IF built.raised
              THEN results' = results /\ idx' = idx /\ pc' = "raised"
              ELSE /\ results' = Append(results, built.record)
                   /\ idx' = idx + 1 /\ pc' = next
    /\ UNCHANGED <<source_exists, listing, fields, pdf_files, csv_rows,
                   cleanVars, matchVars>>

\* main after process_pdfs has returned (lines 184-191): the records are
\* cleaned and written, unless there is none or the file cannot be written.
SaveResults ==
    /\ pc = "returned"
    /\ IF results = <<>>
       THEN /\ csv_rows' = csv_rows
            /\ log' = Append(log, LogEntry("warning", <<>>))
            /\ pc' = "done"
       ELSE \E written \in BOOLEAN :
               IF written
               THEN /\ csv_rows' = [k \in 1..Len(results) |->
                                       CleanedRecord(results[k])]
                    /\ log' = log \o <<LogEntry("info", <<>>), LogEntry("info", <<>>)>>
                    /\ pc' = "saved"
               ELSE /\ csv_rows' = csv_rows
                    /\ log' = log \o <<LogEntry("error", <<>>), LogEntry("error", <<>>)>>
                    /\ pc' = "done"
    /\ UNCHANGED <<source_exists, listing, fields, pdf_files, idx, results,
                   cleanVars, matchVars>>

Next == Start \/ ProcessFile \/ SaveResults

Spec == Init /\ [][Next]_vars

---------------------------------------------------------------------------
(* The claims.                                                             *)

Range(f) == {f[k] : k \in DOMAIN f}

\* C1: cleanup is idempotent: clean_value(clean_value(v)) = clean_value(v)
\* for every value v.
C1_Idempotent == cpc = "twice" => twice = once

\* The text that extract_text_from_pdf gives for a file of the folder.
TextOfFile(name) == extract_text_from_pdf(FileOf(name)).text
\* The text of the document a record was built from.
TextOfRecord(record) == TextOfFile(record[Archivo])

\* C2: every record of the result list has exactly the keys 'Archivo' and
\* the configured field names, and a field with no match in the document
\* is present with the placeholder.
C2_Rectangular ==
    \A k \in 1..Len(results) :
        /\ DOMAIN results[k] = {Archivo} \cup Range(fields)
        /\ \A f \in Range(fields) :
              ~re_search(Pattern(f), TextOfRecord(results[k])).ok
                  => results[k][f] = NoEncontrado

C2_Witness ==
    /\ pc = "returned"
    /\ Len(results) >= 2
    /\ \E k \in 1..Len(results) : \E f \in Range(fields) :
          /\ ~re_search(Pattern(f), TextOfRecord(results[k])).ok
          /\ results[k][f] = NoEncontrado

\* The documents of the folder, in the order of the listing: the names that
\* end in ".pdf" in any case.
Documents ==
    SelectSeq([k \in 1..Len(listing) |-> listing[k].name],
              LAMBDA f : EndsWith(LowerStr(f), DotPdf))
\* How many documents the loop has gone through.
Processed ==
    CASE pc = "start" -> 0
      [] pc \in {"loop", "raised"} -> idx - 1
      [] OTHER -> IF source_exists THEN Len(Documents) ELSE 0
\* Of the first n documents, those whose extraction gave a non-empty text.
Extracted(n) ==
    SelectSeq(SubSeq(Documents, 1, n), LAMBDA f : TextOfFile(f) # <<>>)
RecordNames == [k \in 1..Len(results) |-> results[k][Archivo]]

\* C3: the result list holds one record per document whose extraction gave
\* a non-empty text, in the order the documents were processed, all of the
\* documents once process_pdfs has returned; a document whose extraction
\* fails or gives an empty text adds no record and does not stop the loop.
C3_OneRecordPerExtractedDocument ==
    /\ RecordNames = Extracted(Processed)
    /\ pc = "raised" => TextOfFile(Documents[idx]) # <<>>
    /\ pc = "loop" => idx <= Len(Documents)

C3_Witness ==
    /\ pc = "returned"
    /\ Len(Documents) = 3
    /\ Len(results) = 2
    /\ \E j \in 1..2 : TextOfFile(Documents[j]) = <<>>

\* C4: every document that process_pdfs skips has a warning or an error
\* logged for it before the next document is processed.
C4_SkippedIsLogged ==
    \A j \in 1..Processed :
        TextOfFile(Documents[j]) = <<>>
            => \E e \in Range(log) :
                  e.level \in {"warning", "error"} /\ e.file = Documents[j]

\* C5: a record stores the placeholder for a field if and only if the
\* field's pattern has no match in the text of the document.
C5_PlaceholderIffNoMatch ==
    \A k \in 1..Len(results) : \A f \in Range(fields) :
        results[k][f] = NoEncontrado
            <=> ~re_search(Pattern(f), TextOfRecord(results[k])).ok

\* C9: every value stored in a record is a fixed point of clean_value, so
\* that the rows written are the records as stored.
C9_StoredValuesAreClean ==
    /\ \A k \in 1..Len(results) : \A key \in DOMAIN results[k] :
          clean_value(results[k][key]) = results[k][key]
    /\ pc = "saved" => csv_rows = results

Called == mpc # "call"

\* C6: for the currency field, under either of its names, a text that holds
\* 'Valor Base para Fins : R$ <amount> Base: <rest>' (the first occurrence
\* of the label in the text) gives exactly <amount>, whatever <rest> is.
C6_CurrencyAmount ==
    Called /\ shape.family = "currency" /\ shape.term = BaseTerm
        => result = Str(shape.val)

C6_Witness ==
    /\ mpc = "returned"
    /\ field_name = ValorBaseParaFins
    /\ text = <<"V", "a", "l", "o", "r", " ", "B", "a", "s", "e", " ", "p", "a", "r", "a", " ", "F", "i", "n", "s", " ", ":", " ", "R", "$", " ", "1", ".", "2", "3", "4", ",", "5", "6", " ", "B", "a", "s", "e", ":", " ", "R", "$", " ", "1", ".", "0", "0", "0", ",", "0", "0">>
    /\ result = Str(<<"1", ".", "2", "3", "4", ",", "5", "6">>)

\* C7: a field name that is not a key of the pattern table is matched as
\* literal text followed by a separator: a line that holds the name, ':'
\* and a value gives the value, trimmed and cleaned, and a text that does
\* not hold the name gives not-found; no name makes the call raise.
C7_LiteralFallback ==
    Called /\ shape.family = "line"
        => /\ mpc # "raised"
           /\ shape.label = field_name /\ ~Contains(shape.pre, field_name)
                 => result = Str(clean_value(Strip(shape.val)))
           /\ ~Contains(text, field_name) => result = None

\* C8: for 'PIS/PASEP/NIT', texts that differ only in the label before the
\* separator give the same result, which is the value (the second group)
\* and not the label (the first group).
C8_PisSameValue ==
    Called /\ shape.family = "pis"
        => /\ result = Str(shape.val)
           /\ result.val # shape.label
           /\ \A other \in PisLabels :
                 find_field_value(TextOf([shape EXCEPT !.label = other]),
                                  field_name) = result

C8_Witness ==
    /\ mpc = "returned"
    /\ shape.family = "pis"
    /\ shape.label = Pis
    /\ shape.pre # <<>>
    /\ result = Str(<<"1", "2", "3", ".", "4", "5", "6">>)

\* C10: for 'Valor Base para Fins Rescisorios' the terminator is optional:
\* the label followed by 'R$' and an amount gives the amount, whether
\* 'Base:' follows, the text ends, or lines without 'Base:' follow.
C10_TerminatorOptional ==
    Called /\ shape.family = "currency" /\ field_name = ValorBaseRescisorios
        => result = Str(shape.val)

=============================================================================
